---------------------------- MODULE Spec2Model ----------------------------
(***************************************************************************)
(* Model of jhollandmcs/update_dashboard: the playlist reconciler          *)
(* assign_media_to_playlist and the media locator find_media_ids_for_names *)
(* of src/utils.py, each run against a CMS whose replies are the           *)
(* nondeterministic inputs.                                                *)
(*                                                                         *)
(* JSON values are records [t, n]: t is the Python type of the value and n *)
(* the integer it denotes ("int": the int n; "numstr": the decimal string  *)
(* of n; "badstr": a non-empty string that int() rejects; "none": None or  *)
(* an absent key, which dict.get() does not distinguish).                  *)
(* requests >= 2.27 is assumed: Response.json() raises                     *)
(* requests.exceptions.JSONDecodeError, a RequestException.                *)
(***************************************************************************)
EXTENDS Integers, Sequences, FiniteSets, TLC

VARIABLES
    cms,            \* the playlist object the CMS serves, and its next widget id
    pc,             \* position of assign_media_to_playlist
    fetch,          \* the reply to the playlist GET of the current call
    p,              \* plist[0], the playlist object as fetched
    new_media_ids,  \* argument
    old_media_ids,  \* argument
    widget_map,     \* mediaId -> sequence of widgetId
    notes,          \* local list 'notes'
    deleted,        \* local list 'deleted'
    oi,             \* index of the current element of old_media_ids
    wi,             \* index of the current element of wids
    log,            \* the HTTP requests of the current call, with their replies
    result,         \* the returned dict, or NoResult
    callNo,         \* number of calls started so far
    callsMax,       \* number of calls the caller makes in sequence
    prev,           \* 'deleted' as the previous call returned it
    prevClean,      \* the previous call fetched the playlist and no DELETE of it failed
    fpc,            \* position of find_media_ids_for_names
    filenames,      \* argument
    ni,             \* index of the current element of filenames
    si,             \* index of the current element of 'tried'
    fresult,        \* local dict 'result'
    data,           \* local 'data', the last decoded library reply
    flog,           \* the library lookups of the call, with what each yielded
    target_dir,     \* the target directory: modification time of each file, 0 when absent
    known_files,    \* the file known_files.json
    dpc,            \* position of the sync driver
    target_files,   \* list 'target_files'
    files_to_remove,    \* list 'files_to_remove'
    files_to_replace,   \* list 'files_to_replace'
    new_format_names,   \* dict 'new_format_names'
    playlist_id,    \* whether the name 'playlist_id' is bound
    ui,             \* index of the current element of target_files in the upload loop
    now,            \* the clock datetime.now() reads, in seconds
    cmsReqs,        \* number of CMS requests and calls into utils of the current run
    known0          \* known_files.json as it was when the current run started

avars == <<cms, pc, fetch, p, new_media_ids, old_media_ids, widget_map, notes, deleted,
           oi, wi, log, result, callNo, callsMax, prev, prevClean>>

fvars == <<fpc, filenames, ni, si, fresult, data, flog>>

dvars == <<target_dir, known_files, dpc, target_files, files_to_remove, files_to_replace,
           new_format_names, playlist_id, ui, now, cmsReqs, known0>>

vars == <<avars, fvars, dvars>>

-----------------------------------------------------------------------------
(* Bounds *)

MaxOld == 2         \* length of old_media_ids
MaxNames == 2       \* length of filenames
MaxClock == 3       \* latest second the driver's clock reaches

MediaInts == {1, 2}             \* media ids referenced by widgets
NewLists == {<<>>, <<5, 1>>}    \* values of new_media_ids

-----------------------------------------------------------------------------
(* JSON values and Python's treatment of them *)

IntV(n) == [t |-> "int", n |-> n]
NumStr(n) == [t |-> "numstr", n |-> n]
BadStr == [t |-> "badstr", n |-> 0]
None == [t |-> "none", n |-> 0]

\* bool(v)
Truthy(v) ==
    CASE v.t = "int" -> v.n # 0
      [] v.t = "numstr" -> TRUE
      [] v.t = "badstr" -> TRUE
      [] OTHER -> FALSE

\* a or b
PyOr(a, b) == IF Truthy(a) THEN a ELSE b

\* int(v) returns
Coercible(v) == v.t \in {"int", "numstr"}

\* int(v), for a coercible v
IntOf(v) == v.n


-----------------------------------------------------------------------------
(* The playlist served by GET /playlist?playlistId=..&embed=widgets,regions *)

\* a widget record: a JSON object with the four keys the code reads
Widget(widgetId, id, mediaIds, mediaId) ==
    [widgetId |-> widgetId, id |-> id, mediaIds |-> mediaIds, mediaId |-> mediaId]

\* the shapes of widget record the CMS is taken to serve; an absent or null
\* "mediaIds" reads like an empty one (line 55) and is written <<>>
WidgetShapes ==
    { Widget(IntV(1), None, <<IntV(1)>>, None),
      Widget(IntV(2), None, <<>>, IntV(2)),
      Widget(IntV(1), None, <<IntV(1), BadStr, IntV(2)>>, None),
      Widget(IntV(2), None, <<IntV(1)>>, IntV(2)),
      Widget(None, NumStr(2), <<>>, NumStr(1)),
      Widget(BadStr, None, <<>>, IntV(1)),
      Widget(None, None, <<>>, IntV(1)),
      Widget(IntV(2), None, <<>>, IntV(0)) }

SeqsUpTo(S, n) == UNION { [1..k -> S] : k \in 0..n }

\* the playlists made of the records ws: all of them under "widgets", or the
\* last of them under "newWidgets"
PlaylistsOf(shapes) ==
    { [widgets |-> SubSeq(ws, 1, k), newWidgets |-> SubSeq(ws, k + 1, Len(ws))] :
        <<ws, k>> \in { <<s, j>> \in ({<<>>} \cup (shapes \X shapes) \cup { <<w>> : w \in shapes }) \X (0..2) :
                          j \in {Len(s) - 1, Len(s)} } }

\* the playlists of no, one or two widget records
Playlists == PlaylistsOf(WidgetShapes)

\* the playlists of the two-call scenario: widget 1 referencing media 1 and 2,
\* widget 2 referencing media 1
TwiceShapes ==
    { Widget(IntV(1), None, <<IntV(1), BadStr, IntV(2)>>, None),
      Widget(IntV(2), None, <<IntV(1)>>, IntV(2)) }

OldLists == SeqsUpTo({IntV(1), IntV(2), BadStr}, MaxOld)

\* keys widget_map can hold
MapKeys == {0} \cup MediaInts \cup UNION { {l[i] : i \in DOMAIN l} : l \in NewLists }

EmptyMap == [k \in MapKeys |-> <<>>]

-----------------------------------------------------------------------------
(* Step 2 of assign_media_to_playlist: building widget_map *)

\* wid = w.get("widgetId") or w.get("id")
WidOf(w) == PyOr(w.widgetId, w.id)

\* as MidsOf, with the two fields merged
MidsOfMerged(w) ==
    w.mediaIds \o (IF Truthy(w.mediaId) THEN <<w.mediaId>> ELSE <<>>)

\* the media references read from one widget: "mediaIds" when it is non-empty,
\* else "mediaId" when it is truthy
MidsOf(w) ==
    IF Len(w.mediaIds) > 0 THEN w.mediaIds
    ELSE IF Truthy(w.mediaId) THEN <<w.mediaId>>
    ELSE <<>>

\* as MapAdd, with the widget listed under every media id
MapAddEverywhere(map, mid_int, wid_int) == [k \in DOMAIN map |-> Append(map[k], wid_int)]

\* widget_map.setdefault(mid_int, []).append(wid_int)
MapAdd(map, mid_int, wid_int) == [map EXCEPT ![mid_int] = Append(@, wid_int)]

\* the loop over mids of one widget; int(mid) is guarded, int(wid) is not
RECURSIVE AddMids(_, _, _, _)
AddMids(mids, i, wid, map) ==
    IF i > Len(mids) THEN [raised |-> FALSE, map |-> map]
    ELSE IF ~Coercible(mids[i]) THEN AddMids(mids, i + 1, wid, map)
    ELSE IF ~Coercible(wid) THEN [raised |-> TRUE, map |-> map]
    ELSE AddMids(mids, i + 1, wid, MapAdd(map, IntOf(mids[i]), IntOf(wid)))

\* the body of "for w in widgets"
ScanWidget(w, map) ==
    IF ~Truthy(WidOf(w)) THEN [raised |-> FALSE, map |-> map]
    ELSE AddMids(MidsOf(w), 1, WidOf(w), map)

RECURSIVE ScanWidgets(_, _, _)
ScanWidgets(ws, i, map) ==
    IF i > Len(ws) THEN [raised |-> FALSE, map |-> map]
    ELSE LET r == ScanWidget(ws[i], map)
         IN IF r.raised THEN r ELSE ScanWidgets(ws, i + 1, r.map)

\* widgets.extend(p["widgets"]); widgets.extend(p["newWidgets"]); the scan
BuildMap(pl) == ScanWidgets(pl.widgets \o pl.newWidgets, 1, EmptyMap)

\* bool(widget_map)
MapNonEmpty(map) == \E k \in MapKeys : map[k] # <<>>

-----------------------------------------------------------------------------
(* Notes, requests and results *)

\* one entry of 'notes': the kind of message and the numbers it names
Note(k, a, b, c) == [k |-> k, a |-> a, b |-> b, c |-> c]

\* what a reply amounts to: the request raised a RequestException without a
\* reply ("err"), the CMS did what was asked ("ok": a 2xx status, and for a
\* DELETE one of the success codes 200 and 204), or it refused ("fail")
ReplyClass(st) ==
    IF st = 0 THEN "err" ELSE IF st \in {200, 204} THEN "ok" ELSE "fail"

\* one HTTP request of the call: method, widget id (DELETE), JSON body (POST)
\* and what the reply amounts to ("none" while in flight)
Req(m, wid, body) == [m |-> m, wid |-> wid, body |-> body, re |-> "none"]

Replied(lg, st) == [lg EXCEPT ![Len(lg)].re = ReplyClass(st)]

NoResult == [ret |-> FALSE, deleted |-> <<>>, assigned |-> "None", notes |-> <<>>]

\* {"deleted": .., "assigned": .., "notes": ..}
Result(dl, asg, ns) == [ret |-> TRUE, deleted |-> dl, assigned |-> asg, notes |-> ns]

NoPlaylist == [widgets |-> <<>>, newWidgets |-> <<>>]

NoPrev == <<>>

-----------------------------------------------------------------------------
(* The CMS *)

\* the records of a widget array that DELETE /playlist/widget/{wid} names
IsWidget(w, wid) ==
    /\ Truthy(WidOf(w))
    /\ Coercible(WidOf(w))
    /\ IntOf(WidOf(w)) = wid

WidgetExists(c, wid) ==
    \E i \in DOMAIN (c.widgets \o c.newWidgets) : IsWidget((c.widgets \o c.newWidgets)[i], wid)

\* a successful DELETE removes the widget from the playlist
RemoveWidget(c, wid) ==
    [c EXCEPT !.widgets = SelectSeq(@, LAMBDA w : ~IsWidget(w, wid)),
              !.newWidgets = SelectSeq(@, LAMBDA w : ~IsWidget(w, wid))]

\* a successful assign creates one widget per assigned media id
RECURSIVE AssignMedia(_, _, _)
AssignMedia(c, media, i) ==
    IF i > Len(media) THEN c
    ELSE AssignMedia(
            [c EXCEPT !.playlist.widgets =
                          Append(@, Widget(IntV(c.nextWid), None, <<IntV(media[i])>>, None)),
                      !.nextWid = @ + 1],
            media, i + 1)

\* the replies to a DELETE: no reply (0), or a status; a widget that is not in
\* the playlist is not found (404)
DeleteReplies(c, wid) == IF WidgetExists(c, wid) THEN {0, 200, 204, 500} ELSE {0, 404}

\* the replies to the playlist GET: no reply, an error status, a body that is
\* not JSON, a JSON value that is no list, an empty list, a list whose first
\* element is no object, and the list holding the playlist
FetchReplies == {"neterr", "http", "badjson", "notlist", "empty", "baditem", "playlist"}

\* the replies to the assign POST: no reply, an error status, a body that is
\* not JSON, and a JSON payload
AssignPayloads == {"payloadA", "payloadB"}
AssignReplies == {"neterr", "http"} \cup AssignPayloads

StatusOf(o) == IF o = "neterr" THEN 0 ELSE IF o = "http" THEN 500 ELSE 200

\* the reply makes the try block of the request raise a RequestException
RequestFailed(o) == o \in {"neterr", "http", "badjson"}

-----------------------------------------------------------------------------
(* assign_media_to_playlist *)

\* widget_map.get(mid_int, [])
Wids(map, mid_int) == IF mid_int \in MapKeys THEN map[mid_int] ELSE <<>>

\* "for mid in old_media_ids" from element i up to the first element that has
\* widgets to delete: the elements passed over each leave their note
RECURSIVE SkipOld(_, _, _, _)
SkipOld(old, map, i, ns) ==
    IF i > Len(old) THEN [oi |-> i, notes |-> ns]
    ELSE IF ~Coercible(old[i])
         THEN SkipOld(old, map, i + 1, Append(ns, Note("skip_invalid", old[i].n, 0, 0)))
    ELSE IF Wids(map, IntOf(old[i])) = <<>>
         THEN SkipOld(old, map, i + 1, Append(ns, Note("no_widget", IntOf(old[i]), 0, 0)))
    ELSE [oi |-> i, notes |-> ns]

\* as DeleteSucceeded, with every reply taken for a success
DeleteSucceededAlways(st) == TRUE

\* as DeleteSucceeded, with 204 forgotten
DeleteSucceededOn200(st) == st = 200

\* dr.status_code in (200, 204)
DeleteSucceeded(st) == st \in {200, 204}

\* the note one DELETE leaves: request error, deleted, or failed with a status
DeleteNote(st, wid, mid_int) ==
    IF st = 0 THEN Note("req_error", wid, 0, 0)
    ELSE IF DeleteSucceeded(st) THEN Note("deleted", wid, mid_int, 0)
    ELSE Note("delete_failed", wid, mid_int, st)

\* as DeletedAfter, with the pair recorded whatever the status
DeletedAfterAnyStatus(dl, st, wid, mid_int) ==
    IF st # 0 THEN Append(dl, [mid |-> mid_int, wid |-> wid]) ELSE dl

\* 'deleted' after one DELETE
DeletedAfter(dl, st, wid, mid_int) ==
    IF st # 0 /\ DeleteSucceeded(st)
    THEN Append(dl, [mid |-> mid_int, wid |-> wid])
    ELSE dl

\* as NextDelete, with a DELETE that got no reply tried again
NextDeleteRetrying(st, i, j, n) ==
    IF st = 0 THEN <<i, j>>
    ELSE IF j < n THEN <<i, j + 1>> ELSE <<i + 1, 1>>

\* as NextDelete, with a request error leaving the deletion loops
NextDeleteBreaking(st, i, j, n) ==
    IF st = 0 THEN <<Len(old_media_ids) + 1, 1>>
    ELSE IF j < n THEN <<i, j + 1>> ELSE <<i + 1, 1>>

\* where "for wid in wids" stands after the reply st to the j-th of n widgets
\* of old_media_ids[i]: every path through the body goes on to the next wid
NextDelete(st, i, j, n) == IF j < n THEN <<i, j + 1>> ELSE <<i + 1, 1>>

\* the note of the fetch that failed, or of the reply that is no non-empty list
FetchFailureNotes(o) ==
    IF RequestFailed(o) THEN <<Note("fetch_failed", 0, 0, 0)>>
    ELSE <<Note("not_found", 0, 0, 0)>>

\* as FetchReturnsEarly, with a body that is not JSON or not a non-empty list
\* let through
FetchReturnsEarlyOnHttpOnly(o) == o \in {"neterr", "http"}

\* the early returns of lines 33-37 apply
FetchReturnsEarly(o) == RequestFailed(o) \/ o \in {"notlist", "empty"}

\* as AssignBody, with the ids in reverse order
AssignBodyReversed(new) == [i \in 1..Len(new) |-> new[Len(new) + 1 - i]]

\* the body of the assign POST
AssignBody(new) == new

Goto(pc2, map2, ns2, dl2, oi2, wi2, lg2, res2, cms2) ==
    /\ pc' = pc2
    /\ widget_map' = map2
    /\ notes' = ns2
    /\ deleted' = dl2
    /\ oi' = oi2
    /\ wi' = wi2
    /\ log' = lg2
    /\ result' = res2
    /\ cms' = cms2
    /\ UNCHANGED <<new_media_ids, old_media_ids, callNo, callsMax, prev, prevClean, fvars, dvars>>

Return(res, map2, lg2, cms2) ==
    Goto("done", map2, res.notes, res.deleted, oi, wi, lg2, res, cms2)

Raise(map2, lg2) ==
    Goto("raised", map2, notes, deleted, oi, wi, lg2, NoResult, cms)

\* step 4, lines 93-108: the assign after the deletion loop
AssignOrReturn(map2, ns2, dl2, lg2, cms2) ==
    IF new_media_ids # <<>>
    THEN Goto("assign", map2, ns2, dl2, oi, wi,
              Append(lg2, Req("POST", 0, AssignBody(new_media_ids))), NoResult, cms2)
    ELSE Return(Result(dl2, "None", ns2), map2, lg2, cms2)

\* lines 70-82: on to the next DELETE from position <<i, j>>, or to step 4
DeleteOrAssign(map2, ns2, dl2, i, j, lg2, cms2) ==
    LET s == IF j = 1 THEN SkipOld(old_media_ids, map2, i, ns2)
                      ELSE [oi |-> i, notes |-> ns2]
    IN  IF s.oi <= Len(old_media_ids)
        THEN Goto("delete", map2, s.notes, dl2, s.oi, j,
                  Append(lg2, Req("DELETE", Wids(map2, IntOf(old_media_ids[s.oi]))[j], <<>>)),
                  NoResult, cms2)
        ELSE AssignOrReturn(map2, s.notes, dl2, lg2, cms2)

\* step 5, lines 110-121: no widgets discovered
AssignDirectly(map2, lg2) ==
    LET ns2 == <<Note("no_widgets", 0, 0, 0)>>
    IN  IF new_media_ids = <<>>
        THEN Return(Result(<<>>, "None", Append(ns2, Note("nothing_to_assign", 0, 0, 0))),
                    map2, lg2, cms)
        ELSE Goto("assign", map2, ns2, <<>>, oi, wi,
                  Append(lg2, Req("POST", 0, AssignBody(new_media_ids))), NoResult, cms)

\* lines 18-30: the call, up to the playlist GET; a caller that calls again
\* repeats its arguments
Call(new, old) ==
    /\ \/ pc = "idle"
       \/ /\ pc = "done"
          /\ callNo < callsMax
          /\ new = new_media_ids
          /\ old = old_media_ids
    /\ callNo' = callNo + 1
    /\ prev' = IF pc = "idle" THEN prev ELSE result.deleted
    /\ prevClean' = IF pc = "idle" THEN prevClean
                    ELSE /\ fetch = "playlist"
                         /\ \A i \in DOMAIN log : log[i].m = "DELETE" => log[i].re = "ok"
    /\ new_media_ids' = new
    /\ old_media_ids' = old
    /\ pc' = "fetch"
    /\ fetch' = "none"
    /\ p' = NoPlaylist
    /\ widget_map' = EmptyMap
    /\ notes' = <<>>
    /\ deleted' = <<>>
    /\ oi' = 1
    /\ wi' = 1
    /\ log' = <<Req("GET", 0, <<>>)>>
    /\ result' = NoResult
    /\ UNCHANGED <<cms, callsMax, fvars, dvars>>

\* lines 31-69: the reply to the playlist GET, the mapping, and on to the
\* first DELETE, the assign or the return
FetchReply(o) ==
    /\ pc = "fetch"
    /\ fetch' = o
    /\ p' = IF o = "playlist" THEN cms.playlist ELSE p
    /\ LET lg == Replied(log, StatusOf(o))
       IN  IF FetchReturnsEarly(o)
           THEN Return(Result(<<>>, "None", FetchFailureNotes(o)), widget_map, lg, cms)
           ELSE IF o = "baditem" THEN Raise(widget_map, lg)
           ELSE LET b == BuildMap(p')
                IN  IF b.raised THEN Raise(b.map, lg)
                    ELSE IF MapNonEmpty(b.map)
                         THEN DeleteOrAssign(b.map, <<Note("discovered", 0, 0, 0)>>,
                                             <<>>, 1, 1, lg, cms)
                         ELSE AssignDirectly(b.map, lg)

\* lines 82-90: the reply to one DELETE, and on to the next request
DeleteReply(st) ==
    /\ pc = "delete"
    /\ UNCHANGED <<fetch, p>>
    /\ LET mid_int == IntOf(old_media_ids[oi])
           wids == Wids(widget_map, mid_int)
           wid == wids[wi]
           nxt == NextDelete(st, oi, wi, Len(wids))
       IN  /\ st \in DeleteReplies(cms.playlist, wid)
           /\ DeleteOrAssign(widget_map,
                             Append(notes, DeleteNote(st, wid, mid_int)),
                             DeletedAfter(deleted, st, wid, mid_int),
                             nxt[1], nxt[2],
                             Replied(log, st),
                             IF ReplyClass(st) = "ok"
                             THEN [cms EXCEPT !.playlist = RemoveWidget(@, wid)]
                             ELSE cms)

\* as AssignFailed, with the early-return shape of the fetch failure
AssignFailedDiscarding(dl, ns) == Result(<<>>, "None", <<Note("assign_failed", 0, 0, 0)>>)

\* lines 104-107 and 126-128: what is returned when the assign POST failed
AssignFailed(dl, ns) == Result(dl, "None", Append(ns, Note("assign_failed", 0, 0, 0)))

\* lines 101-108 and 122-128: the reply to the assign POST
AssignReply(o) ==
    /\ pc = "assign"
    /\ UNCHANGED <<fetch, p>>
    /\ LET lg == Replied(log, StatusOf(o))
       IN  IF RequestFailed(o)
           THEN Return(AssignFailed(deleted, notes), widget_map, lg, cms)
           ELSE Return(Result(deleted, o, Append(notes, Note("assigned", 0, 0, 0))),
                       widget_map, lg,
                       AssignMedia(cms, new_media_ids, 1))

-----------------------------------------------------------------------------
(* find_media_ids_for_names *)

\* strings are sequences of characters; an absent or null "fileName" or
\* "name" is written <<>>: it equals no queried name and contains none
StrA == <<"a">>
StrAB == <<"a", "b">>
StrB == <<"b">>

\* the names that can be queried
Names == {StrA, StrAB}

\* a library record: a JSON object with the five keys the code reads
Item(mediaId, media_id, id, fileName, name) ==
    [mediaId |-> mediaId, media_id |-> media_id, id |-> id,
     fileName |-> fileName, name |-> name]

\* the replies to GET /library: no reply, a status other than 200, a body
\* that is not JSON, a JSON value that cannot be iterated as records, and
\* lists of records
Reply(kind, items) == [kind |-> kind, items |-> items]

ItemA7 == Item(IntV(7), None, None, StrA, <<>>)
ItemAB8 == Item(NumStr(8), None, None, StrAB, <<>>)
ItemNameA9 == Item(None, None, IntV(9), <<>>, StrA)
ItemB7 == Item(IntV(7), None, None, StrB, StrB)
ItemNoId == Item(None, None, None, StrA, StrA)
ItemBadId == Item(BadStr, None, None, StrA, <<>>)

LibraryReplies ==
    { Reply("neterr", <<>>), Reply("non200", <<>>), Reply("badjson", <<>>),
      Reply("notlist", <<>>),
      Reply("list", <<>>),
      Reply("list", <<ItemB7>>),
      Reply("list", <<ItemA7>>),
      Reply("list", <<ItemNameA9>>),
      Reply("list", <<ItemA7, ItemAB8>>),
      Reply("list", <<ItemAB8, ItemB7, ItemA7>>),
      Reply("list", <<ItemNoId, ItemAB8>>),
      Reply("list", <<ItemBadId, ItemAB8>>) }

NoData == Reply("none", <<>>)

\* the query parameter of each entry of 'tried', lines 148-152
Tried == <<"fileName", "name", "search">>

\* a in b, for strings
IsSubstring(a, b) ==
    \E i \in 0..(Len(b) - Len(a)) : SubSeq(b, i + 1, i + Len(a)) = a

\* item.get("mediaId") or item.get("media_id") or item.get("id")
MidOf(item) == PyOr(PyOr(item.mediaId, item.media_id), item.id)

\* line 168
ItemMatches(item, name) ==
    \/ item.fileName = name
    \/ item.name = name
    \/ IsSubstring(name, item.fileName)

\* "for item in data", lines 162-169: int(mid) is not guarded
RECURSIVE ScanItems(_, _, _, _)
ScanItems(items, name, i, ids) ==
    IF i > Len(items) THEN [raised |-> FALSE, ids |-> ids]
    ELSE IF ~Truthy(MidOf(items[i])) THEN ScanItems(items, name, i + 1, ids)
    ELSE IF ~ItemMatches(items[i], name) THEN ScanItems(items, name, i + 1, ids)
    ELSE IF ~Coercible(MidOf(items[i])) THEN [raised |-> TRUE, ids |-> ids]
    ELSE ScanItems(items, name, i + 1, Append(ids, IntOf(MidOf(items[i]))))

\* lines 154-160: the request raised, or its status is not 200
LookupFailed(r) == r.kind \in {"neterr", "non200", "badjson"}

\* one lookup: the index of the name, the query parameter, and what it
\* yielded: "none" while in flight, "fail", "raised", or the number of ids
\* it added to result[name]
Lookup(n, param) == [ni |-> n, param |-> param, re |-> "none", ids |-> 0]

Yielded(lg, re, n) == [lg EXCEPT ![Len(lg)].re = re, ![Len(lg)].ids = n]

NoEntry == [present |-> FALSE, ids |-> <<>>]

\* result[name] = ...
Entry(ids) == [present |-> TRUE, ids |-> ids]

\* as StopsAt, with the break forgotten
StopsAtNever(ids) == FALSE

\* line 170: "if result[name]: break"
StopsAt(ids) == ids # <<>>

FGoto(pc2, ni2, si2, res2, data2, lg2) ==
    /\ fpc' = pc2
    /\ ni' = ni2
    /\ si' = si2
    /\ fresult' = res2
    /\ data' = data2
    /\ flog' = lg2
    /\ UNCHANGED <<filenames, avars, dvars>>

\* lines 145-146 for the next name, or line 173
NextName(res2, data2, lg2) ==
    IF ni < Len(filenames)
    THEN FGoto("lookup", ni + 1, 1,
               [res2 EXCEPT ![filenames[ni + 1]] = Entry(<<>>)],
               data2, Append(lg2, Lookup(ni + 1, Tried[1])))
    ELSE FGoto("done", ni, si, res2, data2, lg2)

\* as NextStrategy, with the call given up
NextStrategyGivingUp(res2, data2, lg2) == FGoto("done", ni, si, res2, data2, lg2)

\* "continue", or the end of 'tried'
NextStrategy(res2, data2, lg2) ==
    IF si < Len(Tried)
    THEN FGoto("lookup", ni, si + 1, res2, data2, Append(lg2, Lookup(ni, Tried[si + 1])))
    ELSE NextName(res2, data2, lg2)

\* lines 142-155: the call, up to the first lookup
FindCall(names) ==
    /\ fpc = "idle"
    /\ filenames' = names
    /\ IF names = <<>>
       THEN /\ fpc' = "done"
            /\ UNCHANGED <<ni, si, fresult, data, flog>>
       ELSE /\ fpc' = "lookup"
            /\ fresult' = [fresult EXCEPT ![names[1]] = Entry(<<>>)]
            /\ flog' = <<Lookup(1, Tried[1])>>
            /\ UNCHANGED <<ni, si, data>>
    /\ UNCHANGED <<avars, dvars>>

\* lines 155-171: the reply to one lookup, and on to the next
LibraryReply(r) ==
    /\ fpc = "lookup"
    /\ LET name == filenames[ni]
       IN  IF LookupFailed(r)
           THEN NextStrategy(fresult, data, Yielded(flog, "fail", 0))
           ELSE IF r.kind # "list"
           THEN FGoto("raised", ni, si, fresult, r, Yielded(flog, "raised", 0))
           ELSE LET scan == ScanItems(r.items, name, 1, fresult[name].ids)
                    res2 == [fresult EXCEPT ![name] = Entry(scan.ids)]
                    added == Len(scan.ids) - Len(fresult[name].ids)
                IN  IF scan.raised
                    THEN FGoto("raised", ni, si, res2, r, Yielded(flog, "raised", added))
                    ELSE IF StopsAt(scan.ids)
                    THEN NextName(res2, r, Yielded(flog, "data", added))
                    ELSE NextStrategy(res2, r, Yielded(flog, "data", added))

-----------------------------------------------------------------------------
(* The sync driver, update_dashboard.py *)

\* file names: the part os.path.splitext keeps, as characters, and the extension
FileSales == [stem |-> <<"d", "a", "s", "h", "b", "o", "a", "r", "d", "_", "s">>, ext |-> "mp4"]
FileStock == [stem |-> <<"d", "a", "s", "h", "b", "o", "a", "r", "d", "_", "t">>, ext |-> "mp4"]
FileClip == [stem |-> <<"m", "y", " ", "c", "l", "i", "p">>, ext |-> "mp4"]

\* the files the target directory can hold, in the order os.listdir gives them
DirOrder == <<FileSales, FileStock, FileClip>>

Files == { DirOrder[i] : i \in DOMAIN DirOrder }

\* modification times; 0 stands for a file that is absent
Mtimes == {1, 2}

\* the states of the target directory
Dirs == [Files -> {0} \cup Mtimes]

\* os.listdir(target_path)
Listing(d) == SelectSeq(DirOrder, LAMBDA f : d[f] > 0)

\* the length get_format_name cuts the name to
StemLen == 10

\* s[:n]
Take(s, n) == SubSeq(s, 1, IF Len(s) < n THEN Len(s) ELSE n)

\* s.replace(' ', '')
NoSpaces(s) == SelectSeq(s, LAMBDA c : c # " ")

\* get_format_name(fn) at second t: "_api_", the name without extension and
\* spaces cut to StemLen characters, "_", the time to the second
FormatName(fn, t) == [stem |-> Take(NoSpaces(fn.stem), StemLen), at |-> t]

\* one record of known_files.json
KnownFile(name, timestamp, formatname) ==
    [name |-> name, timestamp |-> timestamp, formatname |-> formatname]

\* known_files.json: absent, not JSON, or a list of records
Missing == [kind |-> "missing", items |-> <<>>]
Unreadable == [kind |-> "unreadable", items |-> <<>>]
Manifest(items) == [kind |-> "list", items |-> items]

\* x in q
Has(q, x) == \E j \in DOMAIN q : q[j] = x

\* q.remove(x)
Remove(q, x) ==
    LET k == CHOOSE j \in DOMAIN q : q[j] = x /\ \A h \in 1..(j - 1) : q[h] # x
    IN  SubSeq(q, 1, k - 1) \o SubSeq(q, k + 1, Len(q))

\* "for item in data", lines 33-41
RECURSIVE Diff(_, _, _, _, _, _)
Diff(items, i, d, tf, rpl, rmv) ==
    IF i > Len(items)
    THEN [target_files |-> tf, files_to_replace |-> rpl, files_to_remove |-> rmv]
    ELSE IF Has(tf, items[i].name)
         THEN IF d[items[i].name] = items[i].timestamp
              THEN Diff(items, i + 1, d, Remove(tf, items[i].name), rpl, rmv)
              ELSE Diff(items, i + 1, d, tf, Append(rpl, items[i].formatname), rmv)
         ELSE Diff(items, i + 1, d, tf, rpl, Append(rmv, items[i].formatname))

\* new_format_names = dict()
NoFormatName == [stem |-> <<>>, at |-> 0]
NoFormatNames == [f \in Files |-> NoFormatName]

\* the positions at which a run has ended: "exit" (line 52), "aborted"
\* (SystemExit(1), line 86), "raised" (an uncaught exception of the API code),
\* "keyerror" (line 147) and "done"
Ended == {"exit", "aborted", "raised", "keyerror", "done"}

\* lines 140-149: the records to write, or the KeyError of line 147
Records(d, names) ==
    LET all_files == Listing(d)
    IN  [raised |-> \E i \in DOMAIN all_files : names[all_files[i]] = NoFormatName,
         out |-> [i \in DOMAIN all_files |->
                     KnownFile(all_files[i], d[all_files[i]], names[all_files[i]])]]

DriverIdle ==
    /\ target_dir = [f \in Files |-> 0]
    /\ known_files = Missing
    /\ dpc = "idle"
    /\ target_files = <<>>
    /\ files_to_remove = <<>>
    /\ files_to_replace = <<>>
    /\ new_format_names = NoFormatNames
    /\ playlist_id = FALSE
    /\ ui = 1
    /\ now = 0
    /\ cmsReqs = 0
    /\ known0 = Missing

\* the driver moves to pc2 with its names bound as given; when the run has
\* ended the process is gone and its names with it
DGoto(pc2, tf, rpl, rmv, names, pid, i, reqs) ==
    /\ dpc' = pc2
    /\ target_files' = IF pc2 \in Ended THEN <<>> ELSE tf
    /\ files_to_replace' = IF pc2 \in Ended THEN <<>> ELSE rpl
    /\ files_to_remove' = IF pc2 \in Ended THEN <<>> ELSE rmv
    /\ new_format_names' = IF pc2 \in Ended THEN NoFormatNames ELSE names
    /\ playlist_id' = IF pc2 \in Ended THEN FALSE ELSE pid
    /\ ui' = IF pc2 \in Ended THEN 1 ELSE i
    /\ cmsReqs' = reqs
    /\ UNCHANGED <<avars, fvars>>

\* the driver moves to pc2, one more request made
DStep(pc2, names, pid, i, reqs) ==
    /\ DGoto(pc2, target_files, files_to_replace, files_to_remove, names, pid, i, reqs)
    /\ UNCHANGED <<target_dir, known0>>

\* lines 9-57: a run starts, some time after the last one, on the directory as
\* it is now (d) and the manifest as it is now (left as written, or damaged),
\* and goes up to the exit of line 52 or the first request
Run(d, damaged) ==
    /\ dpc \in {"idle"} \cup Ended
    /\ now < MaxClock
    /\ now' = now + 1
    /\ LET known == IF damaged THEN Unreadable ELSE known_files
           diff == Diff(known.items, 1, d, Listing(d), <<>>, <<>>)
       IN  /\ target_dir' = d
           /\ known_files' = known
           /\ known0' = known
           /\ DGoto(IF diff.target_files = <<>> /\ diff.files_to_remove = <<>>
                    THEN "exit" ELSE "token",
                    diff.target_files, diff.files_to_replace, diff.files_to_remove,
                    NoFormatNames, FALSE, 1, 0)

\* lines 71-86: the reply to the token request
TokenReply(ok) ==
    /\ dpc = "token"
    /\ DStep(IF ok THEN "playlist" ELSE "aborted", new_format_names, FALSE, 1, cmsReqs + 1)
    /\ UNCHANGED <<known_files, now>>

\* lines 96-112: the reply to the playlist listing: the playlist is in it, or
\* not (playlist_id stays unbound), or the reply cannot be read as a list of
\* playlists; then on to the first upload
PlaylistsReply(o) ==
    /\ dpc = "playlist"
    /\ DStep(IF o = "error" THEN "raised"
             ELSE IF target_files = <<>> THEN "find" ELSE "upload",
             new_format_names, o = "found", 1, cmsReqs + 1)
    /\ UNCHANGED <<known_files, now>>

\* lines 113-126: one upload: the format name taken at the clock's second,
\* then the reply to the POST
UploadReply(ok, tick) ==
    /\ dpc = "upload"
    /\ now + tick <= MaxClock
    /\ now' = now + tick
    /\ DStep(IF ~ok THEN "raised"
             ELSE IF ui < Len(target_files) THEN "upload" ELSE "find",
             [new_format_names EXCEPT
                 ![target_files[ui]] = FormatName(target_files[ui], now')],
             playlist_id, ui + 1, cmsReqs + 1)
    /\ UNCHANGED known_files

\* lines 130-135: find_media_ids_for_names returns or raises; it issues no
\* request for an empty list of names; then line 135 reads playlist_id
FindReturn(o) ==
    /\ dpc = "find"
    /\ (files_to_replace \o files_to_remove = <<>>) => o = "returned"
    /\ DStep(IF o = "raised" \/ ~playlist_id THEN "raised" ELSE "assign",
             new_format_names, playlist_id, ui,
             IF files_to_replace \o files_to_remove = <<>> THEN cmsReqs ELSE cmsReqs + 1)
    /\ UNCHANGED <<known_files, now>>

\* lines 135-152: assign_media_to_playlist returns or raises; then the manifest
\* is written
AssignReturn(o) ==
    /\ dpc = "assign"
    /\ LET w == Records(target_dir, new_format_names)
       IN  /\ DStep(IF o = "raised" THEN "raised"
                    ELSE IF w.raised THEN "keyerror" ELSE "done",
                    new_format_names, playlist_id, ui, cmsReqs + 1)
           /\ known_files' = IF o = "returned" /\ ~w.raised THEN Manifest(w.out)
                             ELSE known_files
    /\ UNCHANGED now

-----------------------------------------------------------------------------
(* Specifications *)

FindIdle ==
    /\ fpc = "idle"
    /\ filenames = <<>>
    /\ ni = 1
    /\ si = 1
    /\ fresult = [n \in Names |-> NoEntry]
    /\ data = NoData
    /\ flog = <<>>

InitCall(n, lists) ==
    /\ cms \in [playlist : lists, nextWid : {3}]
    /\ pc = "idle"
    /\ fetch = "none"
    /\ p = NoPlaylist
    /\ new_media_ids = <<>>
    /\ old_media_ids = <<>>
    /\ widget_map = EmptyMap
    /\ notes = <<>>
    /\ deleted = <<>>
    /\ oi = 1
    /\ wi = 1
    /\ log = <<>>
    /\ result = NoResult
    /\ callNo = 0
    /\ callsMax = n
    /\ prev = NoPrev
    /\ prevClean = FALSE
    /\ FindIdle
    /\ DriverIdle

\* one call against any playlist
Init == InitCall(1, Playlists)

Next ==
    \/ \E new \in NewLists, old \in OldLists : Call(new, old)
    \/ \E o \in FetchReplies : FetchReply(o)
    \/ \E st \in {0, 200, 204, 404, 500} : DeleteReply(st)
    \/ \E o \in AssignReplies : AssignReply(o)

Spec == Init /\ [][Next]_vars

\* two calls in sequence with the same old_media_ids
InitTwice == InitCall(2, PlaylistsOf(TwiceShapes))

SpecTwice == InitTwice /\ [][Next]_vars

\* one call of find_media_ids_for_names
InitFind == InitCall(0, {NoPlaylist})

NextFind ==
    \/ \E names \in SeqsUpTo(Names, MaxNames) : FindCall(names)
    \/ \E r \in LibraryReplies : LibraryReply(r)

SpecFind == InitFind /\ [][NextFind]_vars

\* runs of the sync driver, the directory changing between them
InitSync == InitCall(0, {NoPlaylist})

NextSync ==
    \/ \E d \in Dirs, damaged \in BOOLEAN : Run(d, damaged)
    \/ \E ok \in BOOLEAN : TokenReply(ok)
    \/ \E o \in {"found", "notfound", "error"} : PlaylistsReply(o)
    \/ \E ok \in BOOLEAN, tick \in {0, 1} : UploadReply(ok, tick)
    \/ \E o \in {"returned", "raised"} : FindReturn(o)
    \/ \E o \in {"returned", "raised"} : AssignReturn(o)

SpecSync == InitSync /\ [][NextSync]_vars

-----------------------------------------------------------------------------
(* What the claims speak of *)

Range(q) == { q[i] : i \in DOMAIN q }

DeleteReqs == SelectSeq(log, LAMBDA r : r.m = "DELETE")
PostReqs == SelectSeq(log, LAMBDA r : r.m = "POST")

\* the call took the mapping from the fetched playlist and went on
MapBuilt == fetch = "playlist" /\ pc \in {"delete", "assign", "done"}

\* the (mediaId, widgetId) pairs the deletion loops are to visit, in order:
\* for each integer old media id in turn, each widget the mapping lists for it
RECURSIVE PlannedDeletes(_, _, _)
PlannedDeletes(old, map, i) ==
    IF i > Len(old) THEN <<>>
    ELSE (IF Coercible(old[i])
          THEN [j \in 1..Len(Wids(map, old[i].n)) |->
                    [mid |-> old[i].n, wid |-> Wids(map, old[i].n)[j]]]
          ELSE <<>>) \o PlannedDeletes(old, map, i + 1)

\* the planned pairs whose DELETE, the i-th of the call, was replied to as r
RECURSIVE PairsReplied(_, _, _, _)
PairsReplied(plan, reqs, r, i) ==
    IF i > Len(reqs) \/ i > Len(plan) THEN <<>>
    ELSE (IF reqs[i].re \in r THEN <<plan[i]>> ELSE <<>>) \o PairsReplied(plan, reqs, r, i + 1)

FailureNotes(ns) == SelectSeq(ns, LAMBDA n : n.k \in {"req_error", "delete_failed"})

\* C1: when the playlist fetch fails (no reply, an error status, a body that
\* is not JSON) or yields no non-empty list, the call returns deleted = [],
\* assigned = None and exactly one note, and its only request is the GET.
C1_FetchFailureReturnsEarly ==
    fetch \in {"neterr", "http", "badjson", "notlist", "empty"} =>
        /\ pc = "done"
        /\ result.ret
        /\ result.deleted = <<>>
        /\ result.assigned = "None"
        /\ Len(result.notes) = 1
        /\ \A i \in DOMAIN log : log[i].m = "GET"

C1_Witness ==
    /\ pc = "done"
    /\ fetch = "badjson"
    /\ old_media_ids = <<IntV(1)>>
    /\ new_media_ids # <<>>
    /\ MapNonEmpty(BuildMap(cms.playlist).map)

\* C2: a failed delete never prevents another: once the call has returned,
\* every pair planned for deletion had its DELETE issued, in order; each that
\* succeeded is in 'deleted' and each that failed has a note naming its widget.
C2_FailedDeleteIsolated ==
    (pc = "done" /\ fetch = "playlist") =>
        LET plan == PlannedDeletes(old_media_ids, widget_map, 1)
        IN  /\ Len(DeleteReqs) = Len(plan)
            /\ \A i \in DOMAIN DeleteReqs :
                /\ DeleteReqs[i].wid = plan[i].wid
                /\ DeleteReqs[i].re = "ok" => plan[i] \in Range(result.deleted)
                /\ DeleteReqs[i].re # "ok" =>
                     \E n \in Range(FailureNotes(result.notes)) : n.a = plan[i].wid

\* widget A's delete fails, then another widget B's delete succeeds
C2_Witness ==
    /\ pc = "done"
    /\ \E i, j \in DOMAIN DeleteReqs :
        /\ i < j
        /\ DeleteReqs[i].re \in {"err", "fail"}
        /\ DeleteReqs[j].re = "ok"
        /\ DeleteReqs[i].wid # DeleteReqs[j].wid
        /\ [mid |-> 1, wid |-> DeleteReqs[j].wid] \in Range(result.deleted)

\* the widget records of the fetched playlist, "widgets" before "newWidgets"
Fetched == p.widgets \o p.newWidgets

UsableWid(w) == Truthy(WidOf(w)) /\ Coercible(WidOf(w))

\* the non-zero, non-empty media ids a widget record carries in either field
Carried(w) ==
    { m \in Range(w.mediaIds) \cup {w.mediaId} : Truthy(m) /\ Coercible(m) }

\* C3 as claimed: the mapping holds the widget's id under every integer media
\* id the widget carries in "mediaIds" or in "mediaId", a widget that carries
\* both included, and holds no other pair.
C3_Original ==
    MapBuilt =>
        /\ \A i \in DOMAIN Fetched :
             UsableWid(Fetched[i]) =>
                \A m \in Carried(Fetched[i]) :
                    IntOf(WidOf(Fetched[i])) \in Range(widget_map[IntOf(m)])
        /\ \A k \in MapKeys : \A wid \in Range(widget_map[k]) :
             \E i \in DOMAIN Fetched :
                /\ UsableWid(Fetched[i])
                /\ IntOf(WidOf(Fetched[i])) = wid
                /\ \E m \in Range(Fetched[i].mediaIds) \cup {Fetched[i].mediaId} :
                      Coercible(m) /\ IntOf(m) = k

\* the references one widget record contributes: the integer entries of a
\* non-empty "mediaIds"; only when "mediaIds" is absent or empty, a non-zero
\* integer "mediaId"
Contributed(w) ==
    IF w.mediaIds # <<>>
    THEN SelectSeq(w.mediaIds, Coercible)
    ELSE IF Truthy(w.mediaId) /\ Coercible(w.mediaId) THEN <<w.mediaId>> ELSE <<>>

\* the widget ids contributed under media id k by the records ws[i..], in order
RECURSIVE ListedUnder(_, _, _)
ListedUnder(k, ws, i) ==
    IF i > Len(ws) THEN <<>>
    ELSE (IF UsableWid(ws[i])
          THEN [j \in 1..Len(SelectSeq(Contributed(ws[i]), LAMBDA m : IntOf(m) = k)) |->
                    IntOf(WidOf(ws[i]))]
          ELSE <<>>) \o ListedUnder(k, ws, i + 1)

\* C3, amended: the mapping is exactly what the records of "widgets" and
\* "newWidgets" contribute, each reference once and in order, where a record
\* with a non-empty "mediaIds" contributes its integer entries only (its
\* "mediaId" is not read) and any other record its non-zero integer "mediaId".
C3_MappingMerged ==
    MapBuilt => \A k \in MapKeys : widget_map[k] = ListedUnder(k, Fetched, 1)

\* a widget carrying both fields under "widgets", a singular-only widget with
\* the same id under "newWidgets": both are listed under media 1
C3_Witness ==
    /\ MapBuilt
    /\ Len(p.widgets) = 1 /\ Len(p.newWidgets) = 1
    /\ p.widgets[1].mediaIds # <<>> /\ Truthy(p.widgets[1].mediaId)
    /\ p.newWidgets[1].mediaIds = <<>> /\ Truthy(p.newWidgets[1].mediaId)
    /\ widget_map[1] = <<2, 2>>
    /\ widget_map[2] = <<>>

\* C4: with an empty mapping and a non-empty new_media_ids the call issues no
\* DELETE and exactly one assign POST, whose body is new_media_ids in the
\* given order, and returns deleted = [], whatever old_media_ids is.
C4_EmptyMappingAssignsOnly ==
    (pc = "done" /\ fetch = "playlist" /\ ~MapNonEmpty(widget_map) /\ new_media_ids # <<>>) =>
        /\ DeleteReqs = <<>>
        /\ Len(PostReqs) = 1
        /\ PostReqs[1].body = new_media_ids
        /\ result.deleted = <<>>

\* widgets are served and old media ids are given, yet nothing maps
C4_Witness ==
    /\ pc = "done" /\ fetch = "playlist"
    /\ ~MapNonEmpty(widget_map)
    /\ Fetched # <<>>
    /\ old_media_ids = <<IntV(1), IntV(2)>>
    /\ new_media_ids = <<5, 1>>
    /\ Len(PostReqs) = 1 /\ PostReqs[1].re = "ok"

\* the elements of old_media_ids that lead to no DELETE, each leaving one note
Skipped(old, map) ==
    { i \in DOMAIN old : ~Coercible(old[i]) \/ Wids(map, old[i].n) = <<>> }

AssignFailedAfterDeletes ==
    /\ pc = "done" /\ fetch = "playlist"
    /\ MapNonEmpty(widget_map)
    /\ PostReqs # <<>>
    /\ PostReqs[1].re \in {"err", "fail"}

\* C8: when the assign POST fails after the deletion loop, the call returns
\* 'deleted' with every pair deleted in this call, assigned = None, and the
\* notes so far followed by the assign-failure note; the failed POST is the
\* last request, and each planned DELETE was issued once.
C8_AssignFailureKeepsDeletions ==
    AssignFailedAfterDeletes =>
        LET plan == PlannedDeletes(old_media_ids, widget_map, 1)
        IN  /\ result.ret
            /\ result.deleted = PairsReplied(plan, DeleteReqs, {"ok"}, 1)
            /\ result.assigned = "None"
            /\ Len(result.notes) =
                 1 + Cardinality(Skipped(old_media_ids, widget_map)) + Len(plan) + 1
            /\ result.notes[1].k = "discovered"
            /\ result.notes[Len(result.notes)].k = "assign_failed"
            /\ Len(PostReqs) = 1
            /\ log[Len(log)].m = "POST"
            /\ Len(DeleteReqs) = Len(plan)

C8_Witness ==
    /\ AssignFailedAfterDeletes
    /\ Len(result.deleted) = 1
    /\ Len(DeleteReqs) = 2

\* C9: 'deleted' is exactly, in request order, the pairs whose DELETE was
\* replied to with status 200 or 204; every other DELETE (a request error or
\* another status) adds no pair and leaves one failure note.
C9_DeletedExactlySucceeded ==
    MapBuilt =>
        LET plan == PlannedDeletes(old_media_ids, widget_map, 1)
        IN  /\ deleted = PairsReplied(plan, DeleteReqs, {"ok"}, 1)
            /\ pc = "done" => result.deleted = deleted
            /\ Len(FailureNotes(notes)) =
                 Len(PairsReplied(plan, DeleteReqs, {"err", "fail"}, 1))

\* a refused delete between two that succeed
C9_Witness ==
    /\ pc = "done"
    /\ Len(DeleteReqs) = 3
    /\ DeleteReqs[1].re = "ok" /\ DeleteReqs[2].re = "fail" /\ DeleteReqs[3].re = "ok"
    /\ Len(result.deleted) = 2

\* C7: no exception leaves assign_media_to_playlist, whatever the CMS replies.
C7_NeverRaises == pc # "raised"

\* C6: the lookups of each name are requested in the order fileName, name,
\* search: a later strategy follows only an earlier one that yielded no
\* match, and the lookup after one that yielded a match is the first of the
\* next name; the call ends only after a match or after "search".
C6_StrategyOrder ==
    /\ \A i \in DOMAIN flog :
         IF i = 1
         THEN flog[1].ni = 1 /\ flog[1].param = "fileName"
         ELSE \/ /\ flog[i].ni = flog[i - 1].ni
                 /\ flog[i - 1].re \in {"fail", "data"}
                 /\ flog[i - 1].ids = 0
                 /\ <<flog[i - 1].param, flog[i].param>> \in
                        {<<"fileName", "name">>, <<"name", "search">>}
              \/ /\ flog[i].ni = flog[i - 1].ni + 1
                 /\ flog[i].param = "fileName"
                 /\ flog[i - 1].ids > 0 \/ flog[i - 1].param = "search"
    /\ (fpc = "done" /\ filenames # <<>>) =>
         /\ flog[Len(flog)].ni = Len(filenames)
         /\ flog[Len(flog)].ids > 0 \/ flog[Len(flog)].param = "search"

\* the first name matches only by "search", the second at once by "fileName"
C6_Witness ==
    /\ fpc = "done"
    /\ Len(flog) = 4
    /\ flog[1].param = "fileName" /\ flog[1].re = "data" /\ flog[1].ids = 0
    /\ flog[2].param = "name" /\ flog[2].re = "data" /\ flog[2].ids = 0
    /\ flog[3].param = "search" /\ flog[3].ids > 0
    /\ flog[4].param = "fileName" /\ flog[4].ids > 0

\* the identifiers, as integers and in order, of the records of a reply that
\* match the name, a record without identifier or with one that is no integer
\* being passed over
RECURSIVE MatchingIds(_, _, _)
MatchingIds(items, name, i) ==
    IF i > Len(items) THEN <<>>
    ELSE (IF /\ Truthy(MidOf(items[i]))
             /\ Coercible(MidOf(items[i]))
             /\ \/ items[i].fileName = name
                \/ items[i].name = name
                \/ IsSubstring(name, items[i].fileName)
          THEN <<MidOf(items[i]).n>>
          ELSE <<>>) \o MatchingIds(items, name, i + 1)

\* C10: once a list of records has been received for a name, the name's
\* sequence is the integer identifiers, in response order, of the records
\* that match; a record whose identifier is missing or no integer is skipped
\* and the call goes on.
C10_IdsOfMatchingRecords ==
    (flog # <<>> /\ flog[Len(flog)].re \in {"data", "raised"} /\ data.kind = "list") =>
        /\ fpc # "raised"
        /\ fresult[filenames[flog[Len(flog)].ni]].ids =
             MatchingIds(data.items, filenames[flog[Len(flog)].ni], 1)

\* the widget ids of a list of (mediaId, widgetId) pairs
WidsIn(pairs) == { pairs[i].wid : i \in DOMAIN pairs }

\* no old media id is among the new ones
NoOverlap ==
    \A i \in DOMAIN old_media_ids, j \in DOMAIN new_media_ids :
        old_media_ids[i] # IntV(new_media_ids[j])

\* C5 as claimed, for a first call that deleted a widget and assigned no old
\* media id: in a second call with the same old_media_ids the widget list of
\* every old media id is empty, and no widget the first call deleted gets a
\* DELETE.
C5_Original ==
    (callNo = 2 /\ MapBuilt /\ prev # <<>> /\ NoOverlap) =>
        /\ \A i \in DOMAIN old_media_ids :
             Coercible(old_media_ids[i]) => Wids(widget_map, old_media_ids[i].n) = <<>>
        /\ \A i \in DOMAIN DeleteReqs : DeleteReqs[i].wid \notin WidsIn(prev)

\* C5, amended: in a second call with the same arguments, no widget the first
\* call deleted is listed in the mapping, gets a DELETE or is deleted again;
\* and when the first call fetched the playlist, none of its DELETEs failed
\* and no old media id is among the new ones, the second call finds an empty
\* widget list for every old media id and issues no DELETE.
C5_NoRedeletion ==
    callNo = 2 =>
        /\ \A k \in MapKeys : \A i \in DOMAIN widget_map[k] :
             widget_map[k][i] \notin WidsIn(prev)
        /\ \A i \in DOMAIN DeleteReqs : DeleteReqs[i].wid \notin WidsIn(prev)
        /\ WidsIn(deleted) \cap WidsIn(prev) = {}
        /\ (MapBuilt /\ prevClean /\ NoOverlap) =>
             /\ \A i \in DOMAIN old_media_ids :
                  Coercible(old_media_ids[i]) =>
                      Wids(widget_map, old_media_ids[i].n) = <<>>
             /\ DeleteReqs = <<>>

\* the first call deleted the widget of media 2 and assigned media 5 and 1;
\* the second call finds widgets, none of them for media 2, and assigns again
C5_Witness ==
    /\ callNo = 2
    /\ pc = "done"
    /\ prevClean
    /\ old_media_ids = <<IntV(2)>>
    /\ new_media_ids = <<5, 1>>
    /\ Len(prev) = 1
    /\ MapNonEmpty(widget_map)
    /\ Wids(widget_map, 2) = <<>>
    /\ DeleteReqs = <<>>
    /\ Len(PostReqs) = 1

\* the records of known_files.json are one {name, timestamp, formatname} for
\* each file now in the target directory, and no other
OneRecordPerFile ==
    /\ known_files.kind = "list"
    /\ Len(known_files.items) = Len(Listing(target_dir))
    /\ \A f \in Files :
         target_dir[f] > 0 =>
            \E i \in DOMAIN known_files.items :
                /\ known_files.items[i].name = f
                /\ known_files.items[i].timestamp = target_dir[f]
                /\ known_files.items[i].formatname # NoFormatName

\* C11: a run that found a change and got through its uploads and the
\* reconcile call has rewritten known_files.json with exactly one record for
\* every file in the target directory, the files it did not upload included.
C11_ManifestRewritten ==
    dpc \in {"done", "keyerror"} => OneRecordPerFile

\* the notes left for elements of old_media_ids that were passed over
SkipNotes(ns) == SelectSeq(ns, LAMBDA n : n.k \in {"skip_invalid", "no_widget"})

\* C12: malformed identifiers never abort the call: with the playlist fetched,
\* no exception is raised; the mapping holds what the widgets with an integer
\* widget id and integer media ids contribute, the others contributing
\* nothing; each old media id that is no integer or has no widgets leaves one
\* note and no DELETE, and every other one still gets its DELETEs.
C12_MalformedSkipped ==
    fetch = "playlist" =>
        /\ pc # "raised"
        /\ MapBuilt => \A k \in MapKeys : widget_map[k] = ListedUnder(k, Fetched, 1)
        /\ (pc = "done" /\ MapNonEmpty(widget_map)) =>
             /\ Len(SkipNotes(result.notes)) = Cardinality(Skipped(old_media_ids, widget_map))
             /\ Len(DeleteReqs) = Len(PlannedDeletes(old_media_ids, widget_map, 1))

\* C13: the requests of one call follow the order fetch, deletes, assign: the
\* first request is the one playlist GET, an assign POST is the last request
\* and the only POST, and the DELETEs between them are the planned ones, each
\* issued once and in order whatever the replies were: nothing is re-issued.
C13_FetchDeletesAssign ==
    LET plan == PlannedDeletes(old_media_ids, widget_map, 1)
    IN  /\ \A i \in DOMAIN log : (log[i].m = "GET") <=> (i = 1)
        /\ \A i \in DOMAIN log : log[i].m = "POST" => i = Len(log)
        /\ \A i \in DOMAIN log : i < Len(log) => log[i].re # "none"
        /\ Len(DeleteReqs) <= Len(plan)
        /\ \A i \in DOMAIN DeleteReqs : DeleteReqs[i].wid = plan[i].wid
        /\ (pc = "done" /\ fetch = "playlist") => Len(DeleteReqs) = Len(plan)

\* a delete that got no reply, one that was refused, then a failed assign
C13_Witness ==
    /\ pc = "done"
    /\ Len(log) = 4
    /\ log[1].re = "ok"
    /\ log[2].m = "DELETE" /\ log[2].re = "err"
    /\ log[3].m = "DELETE" /\ log[3].re = "fail"
    /\ log[4].m = "POST" /\ log[4].re = "err"

\* the call is over: it returned, or an exception left it
CallEnded == pc \in {"done", "raised"}

\* C14: a call that ended has issued exactly one assign POST if the fetch
\* returned a non-empty list and new_media_ids is non-empty, and none
\* otherwise; with an empty new_media_ids 'assigned' is None, and after a
\* successful assign it is the payload of the reply.
C14_OneAssignPost ==
    CallEnded =>
        /\ Len(PostReqs) = IF fetch = "playlist" /\ new_media_ids # <<>> THEN 1 ELSE 0
        /\ (pc = "done" /\ new_media_ids = <<>>) => result.assigned = "None"
        /\ (PostReqs # <<>> /\ PostReqs[1].re = "ok") => result.assigned \in AssignPayloads

\* the integer old media ids
OldInts == { old_media_ids[i].n : i \in { j \in DOMAIN old_media_ids : Coercible(old_media_ids[j]) } }

\* the widget ids the fetched playlist associates with a media id of old_media_ids
StaleWids ==
    { IntOf(WidOf(Fetched[i])) :
        i \in { j \in DOMAIN Fetched :
                  /\ UsableWid(Fetched[j])
                  /\ \E m \in Range(Contributed(Fetched[j])) : IntOf(m) \in OldInts } }

\* C15: every DELETE targets a widget that the fetched playlist associates
\* with a media id of old_media_ids; a widget that references only other
\* media, the new media included, gets no DELETE.
C15_OnlyStaleDeleted ==
    \A i \in DOMAIN DeleteReqs : DeleteReqs[i].wid \in StaleWids

\* widget 1 references old media 1 and is deleted; widget 2 references only
\* media 2 and is left alone
C15_Witness ==
    /\ pc = "done"
    /\ old_media_ids = <<IntV(1)>>
    /\ new_media_ids = <<5, 1>>
    /\ widget_map[1] = <<1>> /\ widget_map[2] = <<2>>
    /\ Len(DeleteReqs) = 1 /\ DeleteReqs[1].wid = 1 /\ DeleteReqs[1].re = "ok"
    /\ 2 \notin StaleWids

\* C16 as claimed: within one call no widget gets more than one DELETE and no
\* widget id is in more than one pair of 'deleted'.
C16_Original ==
    /\ \A i, j \in DOMAIN DeleteReqs : DeleteReqs[i].wid = DeleteReqs[j].wid => i = j
    /\ \A i, j \in DOMAIN deleted : deleted[i].wid = deleted[j].wid => i = j

\* C16, amended: a widget gets one DELETE for each time the deletion loops
\* meet it (a repeated old media id, a widget referencing two old media ids,
\* a widget listed twice), so it can get several; against a CMS that removes
\* a widget on a successful DELETE and does not find it afterwards, a DELETE
\* that follows a successful one for the same widget does not succeed, and no
\* widget id is in more than one pair of 'deleted'.
C16_DeletedOnce ==
    /\ \A i, j \in DOMAIN deleted : deleted[i].wid = deleted[j].wid => i = j
    /\ \A i, j \in DOMAIN DeleteReqs :
         (i < j /\ DeleteReqs[i].wid = DeleteReqs[j].wid /\ DeleteReqs[i].re = "ok") =>
             DeleteReqs[j].re \in {"none", "err", "fail"}
    /\ pc = "done" => result.deleted = deleted

\* old_media_ids names media 1 twice: its widget gets two DELETEs, the first
\* succeeds, the second is refused, and 'deleted' holds the widget once
C16_Witness ==
    /\ pc = "done"
    /\ old_media_ids = <<IntV(1), IntV(1)>>
    /\ Len(DeleteReqs) = 2
    /\ DeleteReqs[1].wid = DeleteReqs[2].wid
    /\ DeleteReqs[1].re = "ok" /\ DeleteReqs[2].re = "fail"
    /\ Len(result.deleted) = 1

\* the lookups made for the k-th element of filenames
LookupsOf(k) == SelectSeq(flog, LAMBDA l : l.ni = k)

\* the index of the last occurrence of name n in filenames
LastOf(n) == CHOOSE k \in DOMAIN filenames :
                filenames[k] = n /\ \A h \in DOMAIN filenames : filenames[h] = n => h <= k

\* C17: a failed lookup (no reply, a status other than 200, a body that is
\* not JSON) counts as no match for its strategy only: it is followed by the
\* next strategy for the same name or, after "search", by the first lookup of
\* the next name, and it never ends the call early; the returned mapping has
\* a key for exactly the queried names, with the empty sequence for a name
\* none of whose lookups matched.
C17_FailedLookupIsolated ==
    /\ \A i \in DOMAIN flog :
         flog[i].re = "fail" =>
            /\ flog[i].ids = 0
            /\ IF i < Len(flog)
               THEN \/ /\ flog[i].param # "search"
                       /\ flog[i + 1].ni = flog[i].ni
                       /\ <<flog[i].param, flog[i + 1].param>> \in
                              {<<"fileName", "name">>, <<"name", "search">>}
                    \/ /\ flog[i].param = "search"
                       /\ flog[i + 1].ni = flog[i].ni + 1
                       /\ flog[i + 1].param = "fileName"
               ELSE /\ fpc = "done"
                    /\ flog[i].param = "search"
                    /\ flog[i].ni = Len(filenames)
    /\ fpc = "done" =>
         \A n \in Names :
            /\ fresult[n].present <=> n \in Range(filenames)
            /\ n \in Range(filenames) =>
                 ((\A i \in DOMAIN LookupsOf(LastOf(n)) : LookupsOf(LastOf(n))[i].ids = 0)
                      => fresult[n].ids = <<>>)

\* every lookup of the first name fails; the second name's first lookup
\* fails and its second one matches
C17_Witness ==
    /\ fpc = "done"
    /\ filenames = <<StrA, StrAB>>
    /\ Len(flog) = 5
    /\ \A i \in 1..4 : flog[i].re = "fail"
    /\ flog[5].re = "data" /\ flog[5].ids > 0 /\ flog[5].param = "name"
    /\ fresult[StrA] = Entry(<<>>)
    /\ fresult[StrAB].ids # <<>>

\* the run has made its diff and goes on to the CMS
Diffed == dpc \in {"token", "playlist", "upload", "find", "assign"}

\* the format names queued for removal from the playlist (line 130)
Queued == Range(files_to_replace \o files_to_remove)

\* C18: the diff classifies every file once: a manifest file present with the
\* recorded modification time is not uploaded and its format name is not
\* queued for removal; one present with another modification time is uploaded
\* and its format name queued in files_to_replace; one that is gone has its
\* format name queued in files_to_remove; a file not in the manifest is
\* uploaded; and a run with nothing to upload or remove exits without a CMS
\* request and leaves the manifest as it was.
C18_DiffClassifiesOnce ==
    /\ Diffed =>
         /\ \A i \in DOMAIN known0.items :
              LET it == known0.items[i]
              IN  IF target_dir[it.name] = 0
                  THEN it.formatname \in Range(files_to_remove)
                  ELSE IF target_dir[it.name] = it.timestamp
                  THEN ~Has(target_files, it.name) /\ it.formatname \notin Queued
                  ELSE Has(target_files, it.name) /\ it.formatname \in Range(files_to_replace)
         /\ \A f \in Files :
              (target_dir[f] > 0 /\ \A i \in DOMAIN known0.items : known0.items[i].name # f)
                  => Has(target_files, f)
         /\ \A i, j \in DOMAIN target_files : target_files[i] = target_files[j] => i = j
         /\ Len(files_to_replace) + Len(files_to_remove) <= Len(known0.items)
         /\ target_files # <<>> \/ files_to_remove # <<>>
    /\ dpc = "exit" =>
         /\ cmsReqs = 0
         /\ known_files = known0
         /\ \A f \in Files : target_dir[f] > 0 =>
                \E i \in DOMAIN known0.items :
                    known0.items[i].name = f /\ known0.items[i].timestamp = target_dir[f]

=============================================================================
